---- MODULE Spec2Model ----
(***************************************************************************)
(* A model of pesto.py: dotted versions and their ordering, version ranges *)
(* and their intersection, the transitive collection of requested versions *)
(* and the resolution of one version per dependency name.                  *)
(*                                                                         *)
(* The program is Python 2 code (dict.keys() is sorted in place, the       *)
(* output of a subprocess is split as a str, an int is compared with a     *)
(* str), so Python 2 semantics are modelled: 0 < "<any str>", str values   *)
(* compare lexicographically, and a dict iterates in an order that is no   *)
(* function of the order of insertion.                                     *)
(*                                                                         *)
(* Encodings.  A str is a sequence of character codes (a digit is its own  *)
(* value, a letter is its rank in the alphabet).  _string = None is the    *)
(* empty sequence (the regex group [a-z]+ is never empty), and             *)
(* _second_number = 0 (the int) is the empty sequence (group 3, "or 0").   *)
(* A component string is given as the three groups of _COMPONENT_REGEX,    *)
(* a version string as the sequence of its dot-separated components.       *)
(***************************************************************************)
EXTENDS Integers, Sequences, FiniteSets, TLC

VARIABLES
    ca, cb, cres,            \* component strings under comparison, and the results
    va, vb, vres,            \* version strings under comparison, and the results
    root,                    \* Manifest(is_root=True).dependencies
    world,                   \* which repositories the run may meet
    pc,                      \* position of Driver.run
    err,                     \* the exception that ended the run
    deps, idx,               \* collect: the list being iterated and the position in it
    transitive_deps,         \* collect: transitive_deps
    depth,                   \* collect: recursion depth
    dependencies,            \* DependencyGraphCollector._dependencies
    inserted,                \* names in the order of their first insertion (history)
    cache,                   \* GitResolver._cache: url -> GitRepo
    clones,                  \* url -> number of GitRepo constructions (history)
    checkouts,               \* <<url, version>> -> number of git checkouts (history)
    items,                   \* resolve: deps.items() as iterated
    resolved                 \* resolve: resolved

cvars == <<ca, cb, cres>>
vvars == <<va, vb, vres>>
rvars == <<root, world, pc, err, deps, idx, transitive_deps, depth, dependencies, inserted,
           cache, clones, checkouts, items, resolved>>
vars == <<cvars, vvars, rvars>>

-----------------------------------------------------------------------------
(* Bounds *)

MaxPrefixDigits == 2
MaxLetters == 1
MaxTrailDigits == 2
MaxComponents == 2
MaxRootDeps == 2
MaxManifestDeps == 1
MaxRequests == 3
MaxCollectRootDeps == 1

Digit == {0, 1, 9}
Letter == {1, 2}

-----------------------------------------------------------------------------
(* Strings *)

SeqsUpTo(S, n) == UNION {[1..k -> S] : k \in 0..n}

RECURSIVE DigitsToInt(_)
DigitsToInt(ds) ==
    IF ds = <<>> THEN 0
    ELSE 10 * DigitsToInt(SubSeq(ds, 1, Len(ds) - 1)) + ds[Len(ds)]

RECURSIVE IntToDigits(_)
IntToDigits(n) ==
    IF n < 10 THEN <<n>> ELSE IntToDigits(n \div 10) \o <<n % 10>>

\* s > t for two str values: lexicographic by character code, a proper prefix is smaller
RECURSIVE StrGt(_, _)
StrGt(s, t) ==
    IF s = <<>> THEN FALSE
    ELSE IF t = <<>> THEN TRUE
    ELSE IF s[1] # t[1] THEN s[1] > t[1]
    ELSE StrGt(Tail(s), Tail(t))

\* x > y in Python 2 where each side is the int 0 (<<>>) or a str of digits:
\* an int is smaller than every str, two str compare lexicographically
SecondNumberGt(x, y) ==
    IF x = <<>> THEN FALSE
    ELSE IF y = <<>> THEN TRUE
    ELSE StrGt(x, y)

-----------------------------------------------------------------------------
(* DottedVersionComponent *)

ComponentText(d, l, t) == [digits |-> d, letters |-> l, trail |-> t]

DottedVersionComponent(component_str) ==
    [ original |-> component_str,
      first_number |-> DigitsToInt(component_str.digits),
      string |-> component_str.letters,
      second_number |-> component_str.trail ]

ComponentEq(a, b) ==
    /\ a.first_number = b.first_number
    /\ a.string = b.string
    /\ a.second_number = b.second_number

ComponentNe(a, b) == ~ComponentEq(a, b)

ComponentGt(a, b) ==
    IF a.first_number # b.first_number THEN a.first_number > b.first_number
    ELSE IF a.string = b.string THEN SecondNumberGt(a.second_number, b.second_number)
    ELSE IF a.string # <<>> /\ b.string = <<>> THEN FALSE
    ELSE IF b.string # <<>> /\ a.string = <<>> THEN TRUE
    ELSE StrGt(a.string, b.string)

\* functools.total_ordering, from __gt__ and __eq__
ComponentLt(a, b) == ~(ComponentGt(a, b) \/ ComponentEq(a, b))

ComponentOfInt(n) == DottedVersionComponent(ComponentText(IntToDigits(n), <<>>, <<>>))

next(c) ==
    IF c.string # <<>> THEN ComponentOfInt(c.first_number)
    ELSE ComponentOfInt(c.first_number + 1)

ZERO_COMPONENT == DottedVersionComponent(ComponentText(<<0>>, <<>>, <<>>))

-----------------------------------------------------------------------------
(* DottedVersion: the list _components *)

CanonicalizeNone(components) == components
RECURSIVE Canonicalize(_)
Canonicalize(components) ==
    IF Len(components) > 0 /\ ComponentEq(components[Len(components)], ZERO_COMPONENT)
    THEN Canonicalize(SubSeq(components, 1, Len(components) - 1))
    ELSE components

DottedVersion(version_str) ==
    Canonicalize([i \in 1..Len(version_str) |-> DottedVersionComponent(version_str[i])])

VersionEq(a, b) ==
    /\ Len(a) = Len(b)
    /\ \A i \in 1..Len(a) : ~ComponentNe(a[i], b[i])

ComponentAt(v, i) == IF i > Len(v) THEN ZERO_COMPONENT ELSE v[i]

Max(x, y) == IF x > y THEN x ELSE y

VersionGt(a, b) ==
    LET n == Max(Len(a), Len(b))
        diff == {i \in 1..n : ComponentNe(ComponentAt(a, i), ComponentAt(b, i))}
    IN  IF diff = {} THEN FALSE
        ELSE LET i == CHOOSE j \in diff : \A k \in diff : j <= k
             IN  ComponentGt(ComponentAt(a, i), ComponentAt(b, i))

\* functools.total_ordering, from __gt__ and __eq__
VersionLt(a, b) == ~(VersionGt(a, b) \/ VersionEq(a, b))
VersionLe(a, b) == ~VersionGt(a, b)

\* str(component) is the string it was built from
VersionOfComponents(components) ==
    DottedVersion([i \in 1..Len(components) |-> components[i].original])

\* nextMinor and nextMajor index _components[0]: IndexError on the empty list
NextDefined(v) == Len(v) > 0

nextMinor(v) ==
    VersionOfComponents(
        <<v[1], IF Len(v) < 2 THEN next(ZERO_COMPONENT) ELSE next(v[2])>>)

nextMajor(v) == VersionOfComponents(<<next(v[1])>>)

-----------------------------------------------------------------------------
(* DottedVersionRange *)

DottedVersionRange(lower_bound, upper_bound, upper_bound_inclusive) ==
    [ lower_bound |-> lower_bound,
      upper_bound |-> upper_bound,
      upper_bound_inclusive |-> upper_bound_inclusive ]

contains(range, version) ==
    IF VersionLt(version, range.lower_bound) THEN FALSE
    ELSE IF range.upper_bound_inclusive THEN VersionLe(version, range.upper_bound)
    ELSE VersionLt(version, range.upper_bound)

\* one iteration of the loop of intersect
IntersectStep(acc, version_range) ==
    LET lower == IF VersionGt(version_range.lower_bound, acc.lower_bound)
                 THEN version_range.lower_bound ELSE acc.lower_bound
        narrower == VersionLt(version_range.upper_bound, acc.upper_bound)
    IN  DottedVersionRange(
            lower,
            IF narrower THEN version_range.upper_bound ELSE acc.upper_bound,
            IF narrower THEN version_range.upper_bound_inclusive
            ELSE acc.upper_bound_inclusive)

RECURSIVE IntersectFrom(_, _)
IntersectFrom(acc, version_ranges) ==
    IF version_ranges = <<>> THEN acc
    ELSE IntersectFrom(IntersectStep(acc, Head(version_ranges)), Tail(version_ranges))

\* intersect(first_range, *version_ranges), called with at least one range
intersect(version_ranges) == IntersectFrom(Head(version_ranges), Tail(version_ranges))

-----------------------------------------------------------------------------
(* Inputs of the comparisons *)

\* the strings _COMPONENT_REGEX matches, by its groups
ComponentTexts ==
    { ComponentText(d, l, t) :
        d \in SeqsUpTo(Digit, MaxPrefixDigits) \ {<<>>},
        l \in SeqsUpTo(Letter, MaxLetters) \ {<<>>},
        t \in SeqsUpTo(Digit, MaxTrailDigits) }
    \cup { ComponentText(d, <<>>, <<>>) : d \in SeqsUpTo(Digit, MaxPrefixDigits) \ {<<>>} }

\* "0", "9", "10", "9b", "9b0"
VersionComponentTexts ==
    { ComponentText(<<0>>, <<>>, <<>>), ComponentText(<<9>>, <<>>, <<>>),
      ComponentText(<<1, 0>>, <<>>, <<>>), ComponentText(<<9>>, <<2>>, <<>>),
      ComponentText(<<9>>, <<2>>, <<0>>) }

VersionTexts == SeqsUpTo(VersionComponentTexts, MaxComponents) \ {<<>>}

NoResult == [op |-> "none"]

NoError == [type |-> "none", args |-> <<>>]

CIdle ==
    /\ ca = ComponentText(<<0>>, <<>>, <<>>)
    /\ cb = ComponentText(<<0>>, <<>>, <<>>)
    /\ cres = NoResult

VIdle ==
    /\ va = <<ComponentText(<<0>>, <<>>, <<>>)>>
    /\ vb = <<ComponentText(<<0>>, <<>>, <<>>)>>
    /\ vres = NoResult

RIdle ==
    /\ root = <<>>
    /\ world = "none"
    /\ pc = "idle"
    /\ err = NoError
    /\ deps = <<>>
    /\ idx = 0
    /\ transitive_deps = <<>>
    /\ depth = 0
    /\ dependencies = <<>>
    /\ inserted = <<>>
    /\ cache = <<>>
    /\ clones = <<>>
    /\ checkouts = <<>>
    /\ items = <<>>
    /\ resolved = <<>>

-----------------------------------------------------------------------------
(* Comparing two components *)

CompareComponents ==
    /\ cres = NoResult
    /\ LET a == DottedVersionComponent(ca)
           b == DottedVersionComponent(cb)
       IN  cres' = [ op |-> "compare",
                     eq |-> ComponentEq(a, b),
                     gt |-> ComponentGt(a, b),
                     lt |-> ComponentLt(a, b) ]
    /\ UNCHANGED <<ca, cb, vvars, rvars>>

InitComponent ==
    /\ ca \in ComponentTexts
    /\ cb \in ComponentTexts
    /\ cres = NoResult
    /\ VIdle
    /\ RIdle

NextComponent == CompareComponents

SpecComponent == InitComponent /\ [][NextComponent]_vars

-----------------------------------------------------------------------------
(* Comparing versions, and their next versions *)

CompareVersions ==
    /\ vres = NoResult
    /\ LET a == DottedVersion(va)
           b == DottedVersion(vb)
       IN  vres' = [ op |-> "compare",
                     eq_ab |-> VersionEq(a, b),
                     gt_ab |-> VersionGt(a, b),
                     gt_ba |-> VersionGt(b, a),
                     lt_ab |-> VersionLt(a, b) ]
    /\ UNCHANGED <<va, vb, cvars, rvars>>

NextVersions ==
    /\ vres = NoResult
    /\ LET v == DottedVersion(va)
       IN  vres' = IF NextDefined(v)
                   THEN [ op |-> "next", raised |-> "none",
                          nextMajor |-> nextMajor(v), nextMinor |-> nextMinor(v) ]
                   ELSE [ op |-> "next", raised |-> "IndexError",
                          nextMajor |-> <<>>, nextMinor |-> <<>> ]
    /\ UNCHANGED <<va, vb, cvars, rvars>>

InitVersion ==
    /\ va \in VersionTexts
    /\ vb \in VersionTexts
    /\ vres = NoResult
    /\ CIdle
    /\ RIdle

NextVersion == CompareVersions \/ NextVersions

SpecVersion == InitVersion /\ [][NextVersion]_vars

-----------------------------------------------------------------------------
(* Manifest *)

URLs == {"u1", "u2"}
Names == {"a", "b"}
Paths == {"p1"}

NoRange == DottedVersionRange(<<>>, <<>>, TRUE)

\* one entry of "deps" in pesto.json that has "url" and one of the four version keys
RemoteDepData(url, form, version_str) ==
    [kind |-> "url", url |-> url, form |-> form, version |-> version_str, path |-> ""]

\* one entry of "deps" in pesto.json that has "path"
LocalDepData(path) ==
    [kind |-> "path", url |-> "", form |-> "", version |-> <<>>, path |-> path]

VersionRangeOf(form, version_str) ==
    LET version == DottedVersion(version_str)
    IN  IF form \in {"from", "up_to_next_major"}
        THEN DottedVersionRange(version, nextMajor(version), FALSE)
        ELSE IF form = "up_to_next_minor"
        THEN DottedVersionRange(version, nextMinor(version), FALSE)
        ELSE DottedVersionRange(version, version, TRUE)

ManifestRemoteDependency(url, version_range) ==
    [kind |-> "remote", url |-> url, version_range |-> version_range, path |-> ""]

ManifestLocalDependency(path) ==
    [kind |-> "local", url |-> "", version_range |-> NoRange, path |-> path]

ParseDep(dep_data) ==
    IF dep_data.kind = "url"
    THEN ManifestRemoteDependency(dep_data.url,
                                  VersionRangeOf(dep_data.form, dep_data.version))
    ELSE ManifestLocalDependency(dep_data.path)

\* _parse_manifest raises LocalDepedencyNotAllowedError
LocalNotAllowed(manifest_data, is_root) ==
    ~is_root /\ \E i \in 1..Len(manifest_data.deps) : manifest_data.deps[i].kind = "path"

Manifest(manifest_data) ==
    [ name |-> manifest_data.name,
      dependencies |-> [i \in 1..Len(manifest_data.deps) |-> ParseDep(manifest_data.deps[i])] ]

-----------------------------------------------------------------------------
(* The repositories a run may meet *)

\* "1", "1.1", "1.5"
V1 == <<ComponentText(<<1>>, <<>>, <<>>)>>
V11 == <<ComponentText(<<1>>, <<>>, <<>>), ComponentText(<<1>>, <<>>, <<>>)>>
V15 == <<ComponentText(<<1>>, <<>>, <<>>), ComponentText(<<5>>, <<>>, <<>>)>>

\* A dependency graph: two version declarations on each URL at the root, manifests
\* that declare dependencies (or, against the rule, a local one), and on each URL
\* either both declared versions as tags or the higher one alone
GraphDeps ==
    {RemoteDepData(u, "from", V1) : u \in URLs}
    \cup {RemoteDepData(u, "exact", V11) : u \in URLs}
    \cup {LocalDepData(p) : p \in Paths}

GraphManifestDeps == {RemoteDepData("u1", "from", V1), RemoteDepData("u2", "exact", V11)}

GraphWorld ==
    [ names |-> [u \in URLs |-> IF u = "u1" THEN {"a"} ELSE {"a", "b"}],
      deps |-> SeqsUpTo(GraphManifestDeps, MaxManifestDeps)
               \cup {<<LocalDepData(p)>> : p \in Paths},
      tags |-> {{V1, V11}, {V11}} ]

\* Requests for one name: version declarations whose ranges nest, overlap, touch
\* and are disjoint, at the root, on two repositories whose manifests bear one name
\* and declare nothing
RangeDeps ==
    {RemoteDepData(u, "from", v) : u \in URLs, v \in {V1, V11}}
    \cup {RemoteDepData(u, "up_to_next_major", V1) : u \in URLs}
    \cup {RemoteDepData(u, "up_to_next_minor", V1) : u \in URLs}
    \cup {RemoteDepData(u, "exact", V11) : u \in URLs}

RangeWorld ==
    [ names |-> [u \in URLs |-> {"a"}],
      deps |-> {<<>>},
      tags |-> SUBSET {V1, V11, V15} ]

\* Manifests that may depend on one another: every declaration is "from 1" on one
\* of the two URLs and every repository has the tag 1, so that each declaration
\* leads to a manifest; the root declares one dependency, remote or local
CycleDeps ==
    {RemoteDepData(u, "from", V1) : u \in URLs} \cup {LocalDepData(p) : p \in Paths}

CycleManifestDeps == {RemoteDepData(u, "from", V1) : u \in URLs}

CycleWorld ==
    [ names |-> [u \in URLs |-> Names],
      deps |-> SeqsUpTo(CycleManifestDeps, MaxManifestDeps),
      tags |-> {{V1}, {V1, V11}} ]

World ==
    IF world = "graph" THEN GraphWorld
    ELSE IF world = "cycles" THEN CycleWorld
    ELSE RangeWorld

\* the pesto.json a checkout of a repository may hold: the name is that of the
\* manifests already read from the repository, if any
ManifestDatas(url, repo) ==
    { [name |-> n, deps |-> ds] :
        n \in (IF repo.manifests = {} THEN World.names[url]
               ELSE {m.manifest.name : m \in repo.manifests}),
        ds \in World.deps }

\* pesto.json at a local path
LocalManifestDatas == {[name |-> n, deps |-> ds] : n \in Names, ds \in World.deps}

AnyManifestData == [name |-> "a", deps |-> <<>>]

-----------------------------------------------------------------------------
(* GitRepo, GitResolver *)

NoRepo == [created |-> FALSE, revisions |-> {}, manifests |-> {}]

\* GitRepo.__init__ and _update: the tags of the clone become the keys of _revisions
GitRepo(tags) ==
    [created |-> TRUE, revisions |-> {DottedVersion(t) : t \in tags}, manifests |-> {}]

InCacheNever(c, url) == FALSE
InCache(c, url) == c[url].created

HasRevision(repo, version) == \E r \in repo.revisions : VersionEq(r, version)

ManifestsAt(repo, version) == {m \in repo.manifests : VersionEq(m.version, version)}

\* a checkout that falls back on the branch when the version has no revision
manifestAtAnyVersion(repo, version, manifest_data) ==
    IF ManifestsAt(repo, version) # {}
    THEN [ raised |-> "none", checkout |-> FALSE, repo |-> repo,
           manifest |-> (CHOOSE m \in ManifestsAt(repo, version) : TRUE).manifest ]
    ELSE IF LocalNotAllowed(manifest_data, FALSE)
    THEN [ raised |-> "LocalDepedencyNotAllowedError",
           checkout |-> HasRevision(repo, version), repo |-> repo,
           manifest |-> Manifest(manifest_data) ]
    ELSE [ raised |-> "none", checkout |-> HasRevision(repo, version),
           repo |-> [repo EXCEPT !.manifests =
                        @ \cup {[version |-> version, manifest |-> Manifest(manifest_data)]}],
           manifest |-> Manifest(manifest_data) ]

\* manifestAtVersion: what it raises, the manifest it returns, whether it ran
\* git checkout, and the repository afterwards; manifest_data is pesto.json at version
manifestAtVersion(repo, version, manifest_data) ==
    IF ManifestsAt(repo, version) # {}
    THEN [ raised |-> "none", checkout |-> FALSE, repo |-> repo,
           manifest |-> (CHOOSE m \in ManifestsAt(repo, version) : TRUE).manifest ]
    ELSE IF ~HasRevision(repo, version)
    THEN [ raised |-> "KeyError", checkout |-> FALSE, repo |-> repo,
           manifest |-> Manifest(manifest_data) ]
    ELSE IF LocalNotAllowed(manifest_data, FALSE)
    THEN [ raised |-> "LocalDepedencyNotAllowedError", checkout |-> TRUE, repo |-> repo,
           manifest |-> Manifest(manifest_data) ]
    ELSE [ raised |-> "none", checkout |-> TRUE,
           repo |-> [repo EXCEPT !.manifests =
                        @ \cup {[version |-> version, manifest |-> Manifest(manifest_data)]}],
           manifest |-> Manifest(manifest_data) ]

\* the key of checkouts: the tag of the repository that equals version
RevisionKey(repo, version) == CHOOSE r \in repo.revisions : VersionEq(r, version)

-----------------------------------------------------------------------------
(* DependencyGraphCollector *)

RequestedRemoteVersion(name, git_repo, version_range) ==
    [kind |-> "remote", name |-> name, git_repo |-> git_repo,
     version_range |-> version_range]

Keys(d) == {n \in Names : d[n] # <<>>}

RECURSIVE SumLen(_, _)
SumLen(d, S) ==
    IF S = {} THEN 0
    ELSE LET n == CHOOSE x \in S : TRUE IN Len(d[n]) + SumLen(d, S \ {n})

Recorded == SumLen(dependencies, Names)

\* the request put before the requests already recorded for the name
PrependRequest(d, name, request) == [d EXCEPT ![name] = <<request>> \o @]

\* self._dependencies[name].append(request)
AppendRequest(d, name, request) == [d EXCEPT ![name] = Append(@, request)]

\* transitive_deps.extend(manifest.dependencies)
Extend(transitive, more) == transitive \o more

\* args of the exception manifestAtVersion or Manifest raises
ArgsOf(type) ==
    IF type = "KeyError" THEN <<"<DottedVersion>">>
    ELSE IF type = "LocalDepedencyNotAllowedError"
    THEN <<"Local dependencies are only allowed at root manifests.">>
    ELSE IF type = "TypeError"
    THEN <<"__init__() got an unexpected keyword argument 'local_repo'">>
    ELSE <<"RequestedLocalVersion instance has no attribute 'local_repo'">>

\* an exception leaves Driver.run
Raise(type, args) ==
    /\ pc' = "failed"
    /\ err' = [type |-> type, args |-> args]

\* collect, one iteration of the loop on a local declaration: LocalRepo(path).manifest
\* is parsed as a non-root manifest, then RequestedLocalVersion is called with the
\* keyword local_repo, which its __init__(name, path, initializer) does not take
CollectLocal ==
    /\ pc = "collect"
    /\ idx <= Len(deps)
    /\ deps[idx].kind = "local"
    /\ \E manifest_data \in LocalManifestDatas :
          IF LocalNotAllowed(manifest_data, FALSE)
          THEN Raise("LocalDepedencyNotAllowedError",
                     ArgsOf("LocalDepedencyNotAllowedError"))
          ELSE Raise("TypeError", ArgsOf("TypeError"))
    /\ UNCHANGED <<cvars, vvars, root, world, deps, idx, transitive_deps, depth,
                   dependencies, inserted, cache, clones, checkouts, items, resolved>>

\* collect, one iteration of the loop on a remote declaration
CollectRemote ==
    /\ pc = "collect"
    /\ idx <= Len(deps)
    /\ deps[idx].kind = "remote"
    /\ Recorded < MaxRequests
    /\ LET dep == deps[idx]
           hit == InCache(cache, dep.url)
       IN  \E tags \in (IF hit THEN {{}} ELSE World.tags) :
           LET git_repo == IF hit THEN cache[dep.url] ELSE GitRepo(tags)
               lower_version == dep.version_range.lower_bound
               known == ManifestsAt(git_repo, lower_version) # {}
                        \/ ~HasRevision(git_repo, lower_version)
           IN  \E manifest_data \in (IF known THEN {AnyManifestData}
                                     ELSE ManifestDatas(dep.url, git_repo)) :
               LET got == manifestAtVersion(git_repo, lower_version, manifest_data)
                   name == got.manifest.name
               IN  /\ clones' = IF hit THEN clones
                                ELSE [clones EXCEPT ![dep.url] = @ + 1]
                   /\ cache' = [cache EXCEPT ![dep.url] = got.repo]
                   /\ checkouts' =
                        IF got.checkout
                        THEN [checkouts EXCEPT
                                 ![<<dep.url, RevisionKey(git_repo, lower_version)>>] = @ + 1]
                        ELSE checkouts
                   /\ IF got.raised # "none"
                      THEN /\ Raise(got.raised, ArgsOf(got.raised))
                           /\ UNCHANGED <<idx, transitive_deps, dependencies, inserted>>
                      ELSE /\ dependencies' =
                                AppendRequest(dependencies, name,
                                    RequestedRemoteVersion(name, dep.url, dep.version_range))
                           /\ inserted' = IF dependencies[name] = <<>>
                                          THEN Append(inserted, name) ELSE inserted
                           /\ transitive_deps' =
                                Extend(transitive_deps, got.manifest.dependencies)
                           /\ idx' = idx + 1
                           /\ UNCHANGED <<pc, err>>
    /\ UNCHANGED <<cvars, vvars, root, world, deps, depth, items, resolved>>

\* collect, after the loop: self.collect(transitive_deps)
CollectRecurse ==
    /\ pc = "collect"
    /\ idx > Len(deps)
    /\ transitive_deps # <<>>
    /\ deps' = transitive_deps
    /\ idx' = 1
    /\ transitive_deps' = <<>>
    /\ depth' = depth + 1
    /\ UNCHANGED <<cvars, vvars, root, world, pc, err, dependencies, inserted, cache,
                   clones, checkouts, items, resolved>>

\* collect returns (not deps, or no transitive_deps), and every caller with it
CollectReturn ==
    /\ pc = "collect"
    /\ idx > Len(deps)
    /\ transitive_deps = <<>>
    /\ pc' = "resolve"
    /\ depth' = 0
    /\ UNCHANGED <<cvars, vvars, root, world, err, deps, idx, transitive_deps,
                   dependencies, inserted, cache, clones, checkouts, items, resolved>>

-----------------------------------------------------------------------------
(* DependencyResolver *)

Orders(S) == {o \in [1..Cardinality(S) -> S] : \A n \in S : \E i \in DOMAIN o : o[i] = n}

\* git_versions.sort()
RECURSIVE Sorted(_)
Sorted(versions) ==
    IF versions = {} THEN <<>>
    ELSE LET least == CHOOSE v \in versions :
                          \A w \in versions \ {v} : VersionLt(v, w)
         IN  <<least>> \o Sorted(versions \ {least})

\* the loop over git_versions: the positions of the versions the range contains
Contained(git_versions, range) ==
    {i \in 1..Len(git_versions) : contains(range, git_versions[i])}

\* for version in git_versions: ... break
LastOf(found) == CHOOSE i \in found : \A j \in found : i >= j
FirstOf(found) == CHOOSE i \in found : \A j \in found : i <= j

ResolvedRemoteDependency(name, url, version) ==
    [kind |-> "remote", name |-> name, url |-> url, revision |-> <<url, version>>,
     version |-> version]

\* resolve starts: deps.items() of a Python 2 dict, in an order that is not specified
ResolveItems ==
    /\ pc = "resolve"
    /\ items' \in Orders(Keys(dependencies))
    /\ idx' = 1
    /\ pc' = "resolving"
    /\ UNCHANGED <<cvars, vvars, root, world, err, deps, transitive_deps, depth,
                   dependencies, inserted, cache, clones, checkouts, resolved>>

\* resolve, one iteration of the loop over the names
ResolveName ==
    /\ pc = "resolving"
    /\ idx <= Len(items)
    /\ LET dep_name == items[idx]
           requested_versions == dependencies[dep_name]
           local_found == \E i \in 1..Len(requested_versions) :
                              requested_versions[i].kind = "local"
       IN  IF local_found
           THEN \* version.local_repo of a RequestedLocalVersion: no such attribute
                /\ Raise("AttributeError", ArgsOf("AttributeError"))
                /\ UNCHANGED <<idx, cache, checkouts, resolved>>
           ELSE
           LET version_ranges == [i \in 1..Len(requested_versions) |->
                                      requested_versions[i].version_range]
               intersection == intersect(version_ranges)
               url == requested_versions[1].git_repo
               git_repo == cache[url]
               git_versions == Sorted(git_repo.revisions)
               found == Contained(git_versions, intersection)
           IN  IF found = {}
               THEN \* revisionForVersion(None)
                    /\ Raise("KeyError", <<"None">>)
                    /\ UNCHANGED <<idx, cache, checkouts, resolved>>
               ELSE
               LET resolved_version ==
                       git_versions[FirstOf(found)]
                   known == ManifestsAt(git_repo, resolved_version) # {}
               IN  \E manifest_data \in (IF known THEN {AnyManifestData}
                                         ELSE ManifestDatas(url, git_repo)) :
                   LET got == manifestAtVersion(git_repo, resolved_version, manifest_data)
                   IN  /\ cache' = [cache EXCEPT ![url] = got.repo]
                       /\ checkouts' =
                            IF got.checkout
                            THEN [checkouts EXCEPT ![<<url, resolved_version>>] = @ + 1]
                            ELSE checkouts
                       /\ IF got.raised # "none"
                          THEN /\ Raise(got.raised, ArgsOf(got.raised))
                               /\ UNCHANGED <<idx, resolved>>
                          ELSE /\ resolved' = Append(resolved,
                                      ResolvedRemoteDependency(dep_name, url,
                                                               resolved_version))
                               /\ idx' = idx + 1
                               /\ UNCHANGED <<pc, err>>
    /\ UNCHANGED <<cvars, vvars, root, world, deps, transitive_deps, depth,
                   dependencies, inserted, clones, items>>

\* resolve returns resolved
ResolveReturn ==
    /\ pc = "resolving"
    /\ idx > Len(items)
    /\ pc' = "done"
    /\ UNCHANGED <<cvars, vvars, root, world, err, deps, idx, transitive_deps, depth,
                   dependencies, inserted, cache, clones, checkouts, items, resolved>>

-----------------------------------------------------------------------------
(* Driver.run *)

\* the run starts: the root manifest is parsed with is_root=True, collect is called
RunInit(root_data, w) ==
    /\ root = [i \in 1..Len(root_data) |-> ParseDep(root_data[i])]
    /\ world = w
    /\ pc = "collect"
    /\ err = NoError
    /\ deps = root
    /\ idx = 1
    /\ transitive_deps = <<>>
    /\ depth = 1
    /\ dependencies = [n \in Names |-> <<>>]
    /\ inserted = <<>>
    /\ cache = [u \in URLs |-> NoRepo]
    /\ clones = [u \in URLs |-> 0]
    /\ checkouts = [k \in URLs \X {DottedVersion(t) : t \in UNION World.tags} |-> 0]
    /\ items = <<>>
    /\ resolved = <<>>

Init ==
    /\ \E root_data \in SeqsUpTo(GraphDeps, MaxRootDeps) : RunInit(root_data, "graph")
    /\ CIdle
    /\ VIdle

Next ==
    \/ CollectLocal
    \/ CollectRemote
    \/ CollectRecurse
    \/ CollectReturn
    \/ ResolveItems
    \/ ResolveName
    \/ ResolveReturn

Spec == Init /\ [][Next]_vars

InitResolve ==
    /\ \E root_data \in SeqsUpTo(RangeDeps, MaxRootDeps) : RunInit(root_data, "ranges")
    /\ CIdle
    /\ VIdle

\* no local declaration at the root and no declaration in the manifests reached:
\* CollectLocal and CollectRecurse are never enabled
NextResolve ==
    \/ CollectRemote
    \/ CollectReturn
    \/ ResolveItems
    \/ ResolveName
    \/ ResolveReturn

SpecResolve == InitResolve /\ [][NextResolve]_vars

InitCollect ==
    /\ \E root_data \in SeqsUpTo(CycleDeps, MaxCollectRootDeps) :
          RunInit(root_data, "cycles")
    /\ CIdle
    /\ VIdle

\* deps_collector.collect(manifest.dependencies), up to its return
NextCollect ==
    \/ CollectLocal
    \/ CollectRemote
    \/ CollectRecurse
    \/ CollectReturn

\* the interpreter runs the one thread of the program: a step of collect that can
\* be taken is taken
SpecCollect == InitCollect /\ [][NextCollect]_vars /\ WF_vars(NextCollect)

-----------------------------------------------------------------------------
(* C6, C7, C8: the orderings *)

\* the component of a version string at a position, "0" past its end, not canonicalized
PaddedAt(version_str, i) ==
    IF i > Len(version_str) THEN ZERO_COMPONENT ELSE DottedVersionComponent(version_str[i])

PaddedAgree(s, t) ==
    \A i \in 1..Max(Len(s), Len(t)) : ComponentEq(PaddedAt(s, i), PaddedAt(t, i))

ExactlyOne(p, q, r) == (p /\ ~q /\ ~r) \/ (~p /\ q /\ ~r) \/ (~p /\ ~q /\ r)

\* C6: on parsed versions exactly one of b > a, a == b, a > b holds, < is the converse
\* of >, > is transitive, and a == b exactly when the component sequences agree after
\* padding the shorter one with zero components.
C6_StrictTotalOrder ==
    vres.op = "compare" =>
        /\ ExactlyOne(vres.gt_ba, vres.eq_ab, vres.gt_ab)
        /\ vres.lt_ab = vres.gt_ba
        /\ vres.eq_ab = PaddedAgree(va, vb)
        /\ \A t \in VersionTexts :
              (vres.gt_ab /\ VersionGt(DottedVersion(vb), DottedVersion(t)))
                  => VersionGt(DottedVersion(va), DottedVersion(t))

\* "9.0" against "9": equal although the strings differ in length
C6_Witness ==
    /\ vres.op = "compare"
    /\ Len(va) = 2 /\ Len(vb) = 1
    /\ vres.eq_ab

\* "9.10" against "9.9": the greater by number, not by character
C6_WitnessNumeric ==
    /\ vres.op = "compare"
    /\ Len(va) = 2 /\ Len(vb) = 2
    /\ va[2].digits = <<1, 0>> /\ vb[2].digits = <<9>> /\ va[1] = vb[1]
    /\ vres.gt_ab

\* C7: nextMajor and nextMinor of every parsed version are defined and greater than it.
C7_NextIsGreater ==
    vres.op = "next" =>
        /\ vres.raised = "none"
        /\ VersionGt(vres.nextMajor, DottedVersion(va))
        /\ VersionGt(vres.nextMinor, DottedVersion(va))

\* C7, for the versions that have a first component
C7_NextIsGreaterWhenDefined ==
    (vres.op = "next" /\ vres.raised = "none") =>
        /\ VersionGt(vres.nextMajor, DottedVersion(va))
        /\ VersionGt(vres.nextMinor, DottedVersion(va))

\* The ordering of components as the data model states it: trailingNumber is
\* a non-negative integer, 0 when absent.
trailingNumber(c) == DigitsToInt(c.second_number)

FourRuleEq(a, b) ==
    /\ a.first_number = b.first_number
    /\ a.string = b.string
    /\ trailingNumber(a) = trailingNumber(b)

FourRuleGt(a, b) ==
    IF a.first_number # b.first_number THEN a.first_number > b.first_number
    ELSE IF a.string = b.string THEN trailingNumber(a) > trailingNumber(b)
    ELSE IF a.string = <<>> THEN TRUE
    ELSE IF b.string = <<>> THEN FALSE
    ELSE StrGt(a.string, b.string)

\* C8: == and > of two components agree with the four-rule ordering over
\* (numericPrefix, letterSuffix, trailingNumber), trailingNumber an integer.
C8_FourRuleOrdering ==
    cres.op = "compare" =>
        LET a == DottedVersionComponent(ca)
            b == DottedVersionComponent(cb)
        IN  /\ cres.eq = FourRuleEq(a, b)
            /\ cres.gt = FourRuleGt(a, b)

-----------------------------------------------------------------------------
(* C1, C2, C4: the version resolve selects *)

\* resolve is past the loop iteration of items[k]
Resolved(k) == pc \in {"resolving", "done", "failed"} /\ items # <<>> /\ k < idx

\* an exception left the loop iteration of items[k]
RaisedAt(k) == pc = "failed" /\ items # <<>> /\ k = idx

AllRemote(name) ==
    \A i \in 1..Len(dependencies[name]) : dependencies[name][i].kind = "remote"

RangesOf(name) ==
    [i \in 1..Len(dependencies[name]) |-> dependencies[name][i].version_range]

\* the tags of the source of a name: the repository of its first request
SourceTags(name) == cache[dependencies[name][1].git_repo].revisions

\* the tags that every requested range of the name contains
Satisfying(name) ==
    {v \in SourceTags(name) :
        \A i \in 1..Len(dependencies[name]) : contains(RangesOf(name)[i], v)}

\* C1: for a name whose requests are all remote and whose source has a tag inside
\* every requested range, resolve does not fail to find a version, and the version
\* of its entry is the lowest such tag.
C1_LowestSatisfying ==
    \A k \in 1..Len(items) :
        (AllRemote(items[k]) /\ Satisfying(items[k]) # {}) =>
            /\ ~(RaisedAt(k) /\ err.type = "KeyError")
            /\ Resolved(k) =>
                  /\ resolved[k].name = items[k]
                  /\ resolved[k].version \in Satisfying(items[k])
                  /\ \A w \in Satisfying(items[k]) : ~VersionGt(resolved[k].version, w)

\* two requests, and a selected tag above both lower bounds: the scan passed the
\* lower tags of the source and stopped at the first one inside both ranges
C1_Witness ==
    /\ pc = "done"
    /\ \E k \in 1..Len(resolved) :
          /\ Len(dependencies[items[k]]) = 2
          /\ Satisfying(items[k]) # {}
          /\ \A i \in 1..2 :
                VersionGt(resolved[k].version, RangesOf(items[k])[i].lower_bound)
          /\ \E t \in SourceTags(items[k]) : VersionLt(t, resolved[k].version)

\* C2: the version of every remote resolved entry is contained in the range of
\* every request recorded for its name.
C2_WithinEveryRange ==
    \A k \in 1..Len(resolved) :
        resolved[k].kind = "remote" =>
            \A i \in 1..Len(dependencies[resolved[k].name]) :
                contains(RangesOf(resolved[k].name)[i], resolved[k].version)

\* C4: when no tag of the source is contained in the intersection of the ranges
\* requested for a name, resolve ends, at that name, in a resolution error that
\* identifies the name, and returns no list.
C4_ResolutionError ==
    \A k \in 1..Len(items) :
        ( /\ Resolved(k) \/ RaisedAt(k)
          /\ AllRemote(items[k])
          /\ \A v \in SourceTags(items[k]) : ~contains(intersect(RangesOf(items[k])), v) )
        => /\ RaisedAt(k)
           /\ err.type = "ResolutionError"
           /\ \E i \in 1..Len(err.args) : err.args[i] = items[k]

-----------------------------------------------------------------------------
(* C3, C5: the resolved list *)

HasLocal(name) ==
    \E i \in 1..Len(dependencies[name]) : dependencies[name][i].kind = "local"

FirstLocal(name) ==
    dependencies[name][CHOOSE i \in 1..Len(dependencies[name]) :
                           /\ dependencies[name][i].kind = "local"
                           /\ \A j \in 1..(i - 1) : dependencies[name][j].kind # "local"]

\* C3: the loop of collect gets past every local declaration of the root manifest,
\* and a name with a local request is resolved to a local entry that carries the
\* path of its first local request.
C3_LocalWins ==
    /\ ~( /\ pc = "failed" /\ items = <<>> /\ depth = 1
          /\ idx <= Len(deps) /\ deps[idx].kind = "local" )
    /\ pc = "done" =>
          \A k \in 1..Len(resolved) :
              HasLocal(resolved[k].name) =>
                  /\ resolved[k].kind = "local"
                  /\ resolved[k].path = FirstLocal(resolved[k].name).path

ResolvedNames == [k \in 1..Len(resolved) |-> resolved[k].name]

\* C5: the list resolve returns names every key of the collected mapping once and no
\* other name, in the order in which the keys were first inserted.
C5_OnePerNameInOrder == pc = "done" => ResolvedNames = inserted

\* C5 without the order
C5_OnePerName ==
    pc = "done" =>
        /\ Len(resolved) = Cardinality(Keys(dependencies))
        /\ {resolved[k].name : k \in 1..Len(resolved)} = Keys(dependencies)

-----------------------------------------------------------------------------
(* C9: the order of collection *)

CollectDone == pc \in {"resolve", "resolving", "done"}

\* the manifest collect read for a declaration
ManifestOf(dep) ==
    (CHOOSE m \in ManifestsAt(cache[dep.url], dep.version_range.lower_bound) : TRUE).manifest

RequestOf(dep) == RequestedRemoteVersion(ManifestOf(dep).name, dep.url, dep.version_range)

RECURSIVE Children(_)
Children(ds) ==
    IF ds = <<>> THEN <<>>
    ELSE ManifestOf(Head(ds)).dependencies \o Children(Tail(ds))

RECURSIVE LevelOrder(_)
LevelOrder(ds) == IF ds = <<>> THEN <<>> ELSE ds \o LevelOrder(Children(ds))

RECURSIVE PreOrder(_)
PreOrder(ds) ==
    IF ds = <<>> THEN <<>>
    ELSE <<Head(ds)>> \o PreOrder(ManifestOf(Head(ds)).dependencies) \o PreOrder(Tail(ds))

RequestsOf(ds) == [i \in 1..Len(ds) |-> RequestOf(ds[i])]

\* the mapping a sequence of requests makes, and the order of first insertion
GroupedBy(requests) ==
    [n \in Names |-> LET Named(r) == r.name = n IN SelectSeq(requests, Named)]

RECURSIVE FirstNames(_, _)
FirstNames(requests, seen) ==
    IF requests = <<>> THEN <<>>
    ELSE IF Head(requests).name \in seen THEN FirstNames(Tail(requests), seen)
    ELSE <<Head(requests).name>>
         \o FirstNames(Tail(requests), seen \cup {Head(requests).name})

Collected(order) ==
    /\ dependencies = GroupedBy(RequestsOf(order))
    /\ inserted = FirstNames(RequestsOf(order), {})

\* C9 as claimed: when collect has returned, the collected mapping holds one request
\* per declaration occurrence, in depth-first pre-order.
C9_DepthFirst == CollectDone => Collected(PreOrder(root))

\* C9 as amended: when collect has returned, the collected mapping holds one request
\* per declaration occurrence, level by level: the declarations of one list in
\* their order, then the declarations of the manifests they led to.
C9_LevelOrder == CollectDone => Collected(LevelOrder(root))

\* a graph on which the two orders differ
C9_Witness ==
    /\ CollectDone
    /\ Recorded = 3
    /\ GroupedBy(RequestsOf(LevelOrder(root))) # GroupedBy(RequestsOf(PreOrder(root)))

-----------------------------------------------------------------------------
(* C10: the caches *)

\* C10: in one run a repository is cloned at most once per URL and checked out at
\* most once per URL and version.
C10_FetchedOnce ==
    /\ \A u \in URLs : clones[u] <= 1
    /\ \A k \in DOMAIN checkouts : checkouts[k] <= 1

\* two requests on one URL with equal lower bounds, one clone and one checkout
C10_Witness ==
    \E n \in Names : \E i, j \in 1..Len(dependencies[n]) :
        /\ i < j
        /\ dependencies[n][i].git_repo = dependencies[n][j].git_repo
        /\ VersionEq(RangesOf(n)[i].lower_bound, RangesOf(n)[j].lower_bound)
        /\ clones[dependencies[n][i].git_repo] = 1
        /\ checkouts[<<dependencies[n][i].git_repo,
                       RevisionKey(cache[dependencies[n][i].git_repo],
                                   RangesOf(n)[i].lower_bound)>>] = 1

-----------------------------------------------------------------------------
(* C11: termination of collect *)

\* the manifests collect has read: a repository and a version
NodesRead == UNION {{<<u, m.version>> : m \in cache[u].manifests} : u \in URLs}

DeclarationsOf(node) ==
    (CHOOSE m \in cache[node[1]].manifests : m.version = node[2]).manifest.dependencies

\* a declaration of the manifest at from leads to the manifest at to
LeadsTo(from, to) ==
    \E i \in 1..Len(DeclarationsOf(from)) :
        /\ DeclarationsOf(from)[i].kind = "remote"
        /\ DeclarationsOf(from)[i].url = to[1]
        /\ VersionEq(DeclarationsOf(from)[i].version_range.lower_bound, to[2])

Successors(nodes) == {to \in NodesRead : \E from \in nodes : LeadsTo(from, to)}

RECURSIVE ReachedFrom(_, _)
ReachedFrom(nodes, k) ==
    IF k = 0 THEN nodes ELSE ReachedFrom(nodes \cup Successors(nodes), k - 1)

\* a manifest read depends, through the manifests read, on itself
CycleRead ==
    \E node \in NodesRead :
        node \in ReachedFrom(Successors({node}), Cardinality(NodesRead))

RootIsRemote == \A i \in 1..Len(root) : root[i].kind = "remote"

\* C11: collect eventually returns unless the manifests reachable from the root
\* declarations depend on one another in a cycle, and it never returns once such
\* a cycle has been read.
C11_ReturnsUnlessCycle ==
    /\ <>(CollectDone \/ CycleRead)
    /\ [](CycleRead => ~CollectDone)

\* C11 for a root whose declarations are all remote
C11_RemoteReturnsUnlessCycle ==
    /\ RootIsRemote => <>(CollectDone \/ CycleRead)
    /\ [](CycleRead => ~CollectDone)

\* collect keeps no visited set: it goes round a cycle it has read
C11_RoundTheCycle == CycleRead /\ Recorded = MaxRequests /\ pc = "collect"

\* collect has returned from a graph two manifests deep
C11_ReturnedFromChain == CollectDone /\ Recorded = 2 /\ Len(root) = 1

-----------------------------------------------------------------------------
(* C12: the lower bound of a collected declaration *)

\* the declaration collect is at
AtRemote == pc = "collect" /\ idx <= Len(deps) /\ deps[idx].kind = "remote"

\* every request recorded has a lower bound that is a tag of its repository
RecordedAreTagged ==
    \A n \in Names : \A i \in 1..Len(dependencies[n]) :
        HasRevision(cache[dependencies[n][i].git_repo],
                    dependencies[n][i].version_range.lower_bound)

\* C12: collect records a request for a remote declaration only if the lower bound
\* of its range is a tag of the repository; when it is not, the step ends the run
\* in KeyError and records nothing.
C12_LowerBoundMustBeTag ==
    /\ [](RecordedAreTagged)
    /\ [][ (AtRemote /\ ~HasRevision(cache'[deps[idx].url],
                                      deps[idx].version_range.lower_bound))
           => /\ pc' = "failed"
              /\ err'.type = "KeyError"
              /\ dependencies' = dependencies
              /\ inserted' = inserted ]_vars

\* from "1" on a repository tagged 1.1 alone: a tag lies in the range, and the run
\* has ended in KeyError with nothing recorded for the declaration
C12_Witness ==
    /\ pc = "failed"
    /\ err.type = "KeyError"
    /\ deps[idx].kind = "remote"
    /\ cache[deps[idx].url].created
    /\ ~HasRevision(cache[deps[idx].url], deps[idx].version_range.lower_bound)
    /\ \E r \in cache[deps[idx].url].revisions : contains(deps[idx].version_range, r)
    /\ Recorded = idx - 1
    /\ depth = 1

====
